---- MODULE Spec2Model ----
(***************************************************************************)
(* A model of pypiserver_testing: the command builders, the synchronous    *)
(* runner, the scoped environment / working-directory mutators and the     *)
(* venv fixture of src/pypiserver_testing/{system,fixtures}.py.            *)
(*                                                                         *)
(* Each area has its own specification over the same variables; an area's  *)
(* specification leaves the variables of the other areas at their idle     *)
(* values.                                                                 *)
(*   SpecCmd   pip_cmd, twine_cmd                                          *)
(*   SpecRun   run                                                         *)
(*   SpecEnv   add_to_path, activate_venv, changedir in one thread         *)
(*   SpecFix   the fixture made by create_venv_fixture                     *)
(*   SpecConc  add_to_path / activate_venv in two threads                  *)
(***************************************************************************)
EXTENDS Integers, Sequences, FiniteSets, TLC

VARIABLES
    \* ---- command builders
    default_index,  \* pip_cmd's / twine_cmd's first positional (the URL)
    args,           \* the *args tuple
    builder,        \* which builder produced cmd_out: "none" | "pip" | "twine"
    cmd_out,        \* list(<builder>(...)): the tokens the generator yields
    \* ---- run
    run_in,         \* [cmd, raise_on_err, capture]: the call's arguments
    proc,           \* what the subprocess did: [spawned, returncode, stdout,
                    \*   stderr]
    outcome,        \* how run() ended: [kind |-> "pending" | "return_int" |
                    \*   "return_str" | "raise", ...]
    \* ---- the process-wide state the scoped mutators act on
    environ,        \* os.environ: a function from the names that are set
    cwd,            \* os.getcwd()
    \* ---- scoped mutators, one thread
    scopes,         \* the stack of generator frames suspended at their yield
    last_exit,      \* the scope that has just exited, with its entry state
    nenter,         \* scopes entered (or tried) so far
    nbody,          \* statements run inside blocks so far
    \* ---- venv fixture
    PY2,            \* const.PY2
    fs,             \* the directories that exist
    fixtures,       \* the instances of venv_fixture, in setup order
    \* ---- scoped mutators, two threads
    thr,            \* per thread: kind, target, pc, start, start_env
    env0,           \* the environment before either thread's scope
    overlap         \* how the two scopes lie: "none" | "nested" | "improper"

cmdVars == <<default_index, args, builder, cmd_out>>
runVars == <<run_in, proc, outcome>>
osVars == <<environ, cwd>>
scopeVars == <<scopes, last_exit, nenter, nbody>>
fixVars == <<PY2, fs, fixtures>>
thrVars == <<thr, env0, overlap>>
vars == <<cmdVars, runVars, osVars, scopeVars, fixVars, thrVars>>

\* -------------------------------------------------------------------------
\* Helpers

Range(s) == {s[i] : i \in 1..Len(s)}

SeqsUpTo(S, n) == UNION {[1..k -> S] : k \in 0..n}

EmptyEnv == [k \in {} |-> ""]

\* =========================================================================
\* Command builders (system.py)

LOCALHOST == "http://localhost:8080"

MaxArgs == 3

Urls == {LOCALHOST, "http://other"}

Tokens == {"install", "download", "search", "list",
           "-i", "--index", "--index-url", "-u", "-p", "foo"}

FetchOps == {"install", "download", "search"}

IndexFlags == {"-i", "--index", "--index-url"}

\* any(i in args for i in (...)): membership in the tuple, at any position
AnyIn(S, a) == \E i \in S : i \in Range(a)

pip_cmd_one_alias(index, a) ==
    <<"pip">> \o a \o
    (IF AnyIn(FetchOps, a) /\ ~ AnyIn({"-i"}, a)
     THEN <<"-i", LOCALHOST>> ELSE <<>>)

\* The generator yields 'pip', the args, and then, when an index operation
\* is among the args and no index flag is, '-i' and the literal
\* 'http://localhost:8080' (line 89): default_index is never read.
pip_cmd(index, a) ==
    <<"pip">> \o a \o
    (IF AnyIn(FetchOps, a) /\ ~ AnyIn(IndexFlags, a)
     THEN <<"-i", LOCALHOST>> ELSE <<>>)

twine_cmd_coupled(repo_url, a) ==
    <<"twine">> \o a \o <<"--repository-url", repo_url>> \o
    (IF "-u" \notin Range(a) /\ "-p" \notin Range(a)
     THEN <<"-u", "username", "-p", "password">> ELSE <<>>)

twine_cmd(repo_url, a) ==
    <<"twine">> \o a \o <<"--repository-url", repo_url>> \o
    (IF "-u" \notin Range(a) THEN <<"-u", "username">> ELSE <<>>) \o
    (IF "-p" \notin Range(a) THEN <<"-p", "password">> ELSE <<>>)

CmdIdle ==
    /\ default_index = LOCALHOST
    /\ args = <<>>
    /\ builder = "none"
    /\ cmd_out = <<>>

CmdInit ==
    /\ default_index \in Urls
    /\ args \in SeqsUpTo(Tokens, MaxArgs)
    /\ builder = "none"
    /\ cmd_out = <<>>

PipCmd ==
    /\ builder = "none"
    /\ builder' = "pip"
    /\ cmd_out' = pip_cmd(default_index, args)
    /\ UNCHANGED <<default_index, args>>
    /\ UNCHANGED <<runVars, osVars, scopeVars, fixVars, thrVars>>

TwineCmd ==
    /\ builder = "none"
    /\ builder' = "twine"
    /\ cmd_out' = twine_cmd(default_index, args)
    /\ UNCHANGED <<default_index, args>>
    /\ UNCHANGED <<runVars, osVars, scopeVars, fixVars, thrVars>>

\* =========================================================================
\* run (system.py)

MaxOut == 2

Cmds == {<<"pip", "list">>, <<"false">>}

\* 0, ordinary failures, and -N for a child killed by signal N (POSIX)
ReturnCodes == {-15, 0, 1, 2}

\* "A", and the two bytes of U+00E9; alone or out of order the latter two
\* are not UTF-8
Bytes == {65, 195, 169}

ByteSeqs == SeqsUpTo(Bytes, MaxOut)

\* Optional values: None is the empty tuple, a value x is <<x>>
None == <<>>

Some(x) == <<x>>

RECURSIVE Utf8Valid(_)
Utf8Valid(b) ==
    IF b = <<>> THEN TRUE
    ELSE IF b[1] < 128 THEN Utf8Valid(Tail(b))
    ELSE IF b[1] \in 194..223 /\ Len(b) >= 2 /\ b[2] \in 128..191
         THEN Utf8Valid(SubSeq(b, 3, Len(b)))
    ELSE FALSE

\* bytes.decode('utf-8') on valid input: the sequence of code points
RECURSIVE Utf8Decode(_)
Utf8Decode(b) ==
    IF b = <<>> THEN <<>>
    ELSE IF b[1] < 128 THEN <<b[1]>> \o Utf8Decode(Tail(b))
    ELSE <<(b[1] - 192) * 64 + (b[2] - 128)>>
         \o Utf8Decode(SubSeq(b, 3, Len(b)))

\* proc.communicate(): the bytes of a stream that was piped, None otherwise
communicate(capture, p) ==
    IF capture THEN <<Some(p.stdout), Some(p.stderr)>> ELSE <<None, None>>

\* lambda x: x if x is None else x.decode('utf-8')
decode_opt(x) == IF x = None THEN None ELSE Some(Utf8Decode(x[1]))

decodable(x) == x = None \/ Utf8Valid(x[1])

run_stderr_for_stdout(in, p) ==
    LET streams == communicate(in.capture, p)
    IN  IF ~ p.spawned
        THEN [kind |-> "raise", exc |-> "OSError"]
        ELSE IF ~ (decodable(streams[1]) /\ decodable(streams[2]))
        THEN [kind |-> "raise", exc |-> "UnicodeDecodeError"]
        ELSE LET out == decode_opt(streams[1])
                 err == decode_opt(streams[2])
             IN  IF in.raise_on_err /\ p.returncode # 0
                 THEN [kind |-> "raise", exc |-> "CalledProcessError",
                       returncode |-> p.returncode, cmd |-> in.cmd,
                       output |-> out, stderr |-> err]
                 ELSE IF in.capture
                 THEN [kind |-> "return_str", val |-> err[1]]
                 ELSE [kind |-> "return_int", val |-> p.returncode]

run_raise_any(in, p) ==
    LET streams == communicate(in.capture, p)
    IN  IF ~ p.spawned
        THEN [kind |-> "raise", exc |-> "OSError"]
        ELSE IF ~ (decodable(streams[1]) /\ decodable(streams[2]))
        THEN [kind |-> "raise", exc |-> "UnicodeDecodeError"]
        ELSE LET out == decode_opt(streams[1])
                 err == decode_opt(streams[2])
             IN  IF p.returncode # 0
                 THEN [kind |-> "raise", exc |-> "CalledProcessError",
                       returncode |-> p.returncode, cmd |-> in.cmd,
                       output |-> out, stderr |-> err]
                 ELSE IF in.capture
                 THEN [kind |-> "return_str", val |-> out[1]]
                 ELSE [kind |-> "return_int", val |-> p.returncode]

\* run(cmd, raise_on_err, capture) against a subprocess that behaves as p:
\* Popen may fail to start it; otherwise it runs to completion, the captured
\* streams are decoded, and the call raises or returns.
run(in, p) ==
    LET streams == communicate(in.capture, p)
    IN  IF ~ p.spawned
        THEN [kind |-> "raise", exc |-> "OSError"]
        ELSE IF ~ (decodable(streams[1]) /\ decodable(streams[2]))
        THEN [kind |-> "raise", exc |-> "UnicodeDecodeError"]
        ELSE LET out == decode_opt(streams[1])
                 err == decode_opt(streams[2])
             IN  IF in.raise_on_err /\ p.returncode # 0
                 THEN [kind |-> "raise", exc |-> "CalledProcessError",
                       returncode |-> p.returncode, cmd |-> in.cmd,
                       output |-> out, stderr |-> err]
                 ELSE IF in.capture
                 THEN [kind |-> "return_str", val |-> out[1]]
                 ELSE [kind |-> "return_int", val |-> p.returncode]

NoProc == [spawned |-> FALSE, returncode |-> 0, stdout |-> <<>>,
           stderr |-> <<>>]

Procs ==
    {NoProc} \cup
    [spawned : {TRUE}, returncode : ReturnCodes, stdout : ByteSeqs,
     stderr : ByteSeqs]

RunIdle ==
    /\ run_in = [cmd |-> <<>>, raise_on_err |-> TRUE, capture |-> FALSE]
    /\ proc = NoProc
    /\ outcome = [kind |-> "pending"]

RunInit ==
    /\ run_in \in [cmd : Cmds, raise_on_err : BOOLEAN, capture : BOOLEAN]
    /\ proc = NoProc
    /\ outcome = [kind |-> "pending"]

Run ==
    /\ outcome.kind = "pending"
    /\ \E p \in Procs :
        /\ proc' = p
        /\ outcome' = run(run_in, p)
    /\ UNCHANGED run_in
    /\ UNCHANGED <<cmdVars, osVars, scopeVars, fixVars, thrVars>>

\* =========================================================================
\* The process environment and the scoped mutators (system.py)

MaxEnters == 2

MaxBody == 2

Keys == {"PATH", "VIRTUAL_ENV", "__PYVENV_LAUNCHER__", "FOO"}

InitPaths == {"/usr/bin:/bin", ""}

InitOther == [k \in {"VIRTUAL_ENV", "FOO"} |->
                 IF k = "FOO" THEN "1" ELSE "/old"]

InitEnvs ==
    {[k \in S |-> IF k = "PATH" THEN p ELSE InitOther[k]] :
        S \in SUBSET {"PATH", "VIRTUAL_ENV", "FOO"}, p \in InitPaths}

Targets == {"/opt/bin"}

VenvDirs == {"/v", "/w/"}

Dirs == {"/", "/tmp", "/srv"}

BodyVals == {"x"}

\* environ[k] = v
SetItem(env, k, v) ==
    [x \in DOMAIN env \cup {k} |-> IF x = k THEN v ELSE env[x]]

\* del environ[k]
DelItem(env, k) == [x \in DOMAIN env \ {k} |-> env[x]]

\* environ.update(other)
Update(env, other) ==
    [x \in DOMAIN env \cup DOMAIN other |->
        IF x \in DOMAIN other THEN other[x] ELSE env[x]]

\* posixpath.join(a, b) for a relative b
path_join(a, b) ==
    IF a = "" \/ SubSeq(a, Len(a), Len(a)) = "/"
    THEN a \o b
    ELSE a \o "/" \o b

\* '{}:{}'.format(target, start)
path_prefixed(target, start) == target \o ":" \o start

\* add_to_path up to its yield, as two statements
add_to_path_read(env) == env["PATH"]

add_to_path_write(env, target, start) ==
    SetItem(env, "PATH", path_prefixed(target, start))

add_to_path_restore_skipped(env, start) == env

\* add_to_path after its yield
add_to_path_restore(env, start) == SetItem(env, "PATH", start)

\* activate_venv up to its with statement
activate_venv_set_venv(env, venv_dir) ==
    SetItem(env, "VIRTUAL_ENV", venv_dir)

activate_venv_set_launcher(env, venv_dir) ==
    SetItem(env, "__PYVENV_LAUNCHER__", venv_dir \o "/bin/python")

activate_venv_mark(env, venv_dir) ==
    activate_venv_set_launcher(activate_venv_set_venv(env, venv_dir),
                               venv_dir)

\* activate_venv after its with statement, as two statements
environ_clear(env) == EmptyEnv

activate_venv_restore(env, start_env) == Update(env, start_env)

NoExit == [kind |-> "none", how |-> "none", pre_env |-> EmptyEnv,
           pre_cwd |-> ""]

Frame(kind, start, start_env) ==
    [kind |-> kind, start |-> start, start_env |-> start_env,
     pre_env |-> environ, pre_cwd |-> cwd]

Top == scopes[Len(scopes)]

Pop == SubSeq(scopes, 1, Len(scopes) - 1)

OsIdle ==
    /\ environ = EmptyEnv
    /\ cwd = "/"

ScopeIdle ==
    /\ scopes = <<>>
    /\ last_exit = NoExit
    /\ nenter = 0
    /\ nbody = 0

ScopeInit ==
    /\ environ \in InitEnvs
    /\ cwd \in Dirs
    /\ scopes = <<>>
    /\ last_exit = NoExit
    /\ nenter = 0
    /\ nbody = 0

\* with add_to_path(target): up to the yield.  Without PATH line 37 raises
\* KeyError and the block is never entered.
EnterAddToPath ==
    /\ nenter < MaxEnters
    /\ nenter' = nenter + 1
    /\ \E target \in Targets :
        IF "PATH" \in DOMAIN environ
        THEN LET start == add_to_path_read(environ)
             IN  /\ environ' = add_to_path_write(environ, target, start)
                 /\ scopes' = Append(scopes,
                                     Frame("add_to_path", start, EmptyEnv))
        ELSE UNCHANGED <<environ, scopes>>
    /\ last_exit' = NoExit
    /\ UNCHANGED <<cwd, nbody>>
    /\ UNCHANGED <<cmdVars, runVars, fixVars, thrVars>>

\* with activate_venv(venv_dir): up to the yield, which is inside its
\* with add_to_path(...).  Without PATH the inner __enter__ raises KeyError
\* after the two markers were set.
EnterActivateVenv ==
    /\ nenter < MaxEnters
    /\ nenter' = nenter + 1
    /\ \E venv_dir \in VenvDirs :
        LET start_env == environ
            marked == activate_venv_mark(environ, venv_dir)
        IN  IF "PATH" \in DOMAIN marked
            THEN LET start == add_to_path_read(marked)
                 IN  /\ environ' = add_to_path_write(
                                      marked, path_join(venv_dir, "bin"),
                                      start)
                     /\ scopes' = Append(scopes,
                                    Frame("activate_venv", start, start_env))
            ELSE /\ environ' = marked
                 /\ UNCHANGED scopes
    /\ last_exit' = NoExit
    /\ UNCHANGED <<cwd, nbody>>
    /\ UNCHANGED <<cmdVars, runVars, fixVars, thrVars>>

\* with changedir(target): up to the yield
EnterChangedir ==
    /\ nenter < MaxEnters
    /\ nenter' = nenter + 1
    /\ \E target \in Dirs :
        /\ cwd' = target
        /\ scopes' = Append(scopes, Frame("changedir", cwd, EmptyEnv))
    /\ last_exit' = NoExit
    /\ UNCHANGED <<environ, nbody>>
    /\ UNCHANGED <<cmdVars, runVars, fixVars, thrVars>>

\* Statements of the caller inside a block
BodySetenv ==
    /\ scopes # <<>>
    /\ nbody < MaxBody
    /\ \E k \in Keys, v \in BodyVals : environ' = SetItem(environ, k, v)
    /\ nbody' = nbody + 1
    /\ UNCHANGED nenter
    /\ last_exit' = NoExit
    /\ UNCHANGED <<cwd, scopes>>
    /\ UNCHANGED <<cmdVars, runVars, fixVars, thrVars>>

BodyDelenv ==
    /\ scopes # <<>>
    /\ nbody < MaxBody
    /\ \E k \in DOMAIN environ : environ' = DelItem(environ, k)
    /\ nbody' = nbody + 1
    /\ UNCHANGED nenter
    /\ last_exit' = NoExit
    /\ UNCHANGED <<cwd, scopes>>
    /\ UNCHANGED <<cmdVars, runVars, fixVars, thrVars>>

BodyChdir ==
    /\ scopes # <<>>
    /\ nbody < MaxBody
    /\ \E d \in Dirs : cwd' = d
    /\ nbody' = nbody + 1
    /\ UNCHANGED nenter
    /\ last_exit' = NoExit
    /\ UNCHANGED <<environ, scopes>>
    /\ UNCHANGED <<cmdVars, runVars, fixVars, thrVars>>

\* The block of the innermost scope ends normally: @contextmanager resumes
\* the generator after its yield and the rest of the function runs.
ExitNormal ==
    /\ scopes # <<>>
    /\ environ' =
        CASE Top.kind = "add_to_path" ->
                add_to_path_restore(environ, Top.start)
          [] Top.kind = "activate_venv" ->
                activate_venv_restore(
                    environ_clear(add_to_path_restore(environ, Top.start)),
                    Top.start_env)
          [] OTHER -> environ
    /\ cwd' = IF Top.kind = "changedir" THEN Top.start ELSE cwd
    /\ last_exit' = [kind |-> Top.kind, how |-> "normal",
                     pre_env |-> Top.pre_env, pre_cwd |-> Top.pre_cwd]
    /\ scopes' = Pop
    /\ UNCHANGED <<nenter, nbody>>
    /\ UNCHANGED <<cmdVars, runVars, fixVars, thrVars>>

\* The block of the innermost scope raises: @contextmanager throws the error
\* into the generator at its yield.  None of the three functions has a
\* try/finally around the yield (and activate_venv's inner add_to_path has
\* none either), so the error leaves the generator at once and the
\* statements after the yield never run.
ExitError ==
    /\ scopes # <<>>
    /\ last_exit' = [kind |-> Top.kind, how |-> "error",
                     pre_env |-> Top.pre_env, pre_cwd |-> Top.pre_cwd]
    /\ scopes' = Pop
    /\ UNCHANGED <<environ, cwd, nenter, nbody>>
    /\ UNCHANGED <<cmdVars, runVars, fixVars, thrVars>>

\* =========================================================================
\* create_venv_cmd (system.py) and the fixture of create_venv_fixture
\* (fixtures.py)

MaxFixtures == 2

MaxTests == 2

\* the names mkdtemp() may pick
TmpRoots == {"/tmp/tmpA", "/tmp/tmpB", "/tmp/tmpC"}

SysExecutable == "/usr/bin/python3"

\* the factory's python argument: None, or a basename
Pythons == {None, Some("python2.7")}

\* create_venv_cmd(venv_dir, python): the extra *args are never yielded
create_venv_cmd(py2, venv_dir, python) ==
    LET py == IF python = None THEN SysExecutable ELSE python[1]
    IN  (IF py2 THEN <<"virtualenv", "-p", py>> ELSE <<py, "-m", "venv">>)
        \o <<venv_dir>>

\* d itself or a path below it
IsUnder(q, d) ==
    \/ q = d
    \/ /\ Len(q) > Len(d)
       /\ SubSeq(q, 1, Len(d) + 1) = d \o "/"

\* shutil.rmtree(d)
rmtree(files, d) == {q \in files : ~ IsUnder(q, d)}

\* What the venv tool may do: not start, fail (with or without having made
\* the directory), or succeed and leave the directory.
VenvRuns ==
    {[p |-> NoProc, made |-> FALSE]} \cup
    {[p |-> [spawned |-> TRUE, returncode |-> rc, stdout |-> <<>>,
             stderr |-> <<>>],
      made |-> (rc = 0 \/ m)] :
        rc \in ReturnCodes, m \in BOOLEAN}

FixIdle ==
    /\ PY2 = FALSE
    /\ fs = {}
    /\ fixtures = <<>>

FixInit ==
    /\ PY2 \in BOOLEAN
    /\ fs = {}
    /\ fixtures = <<>>

\* venv_fixture up to its yield (lines 75-78).  run() is called with its
\* defaults, so a failing venv command raises out of the fixture and the
\* yield is never reached.
FixtureSetup ==
    /\ Len(fixtures) < MaxFixtures
    /\ \E venv_root \in TmpRoots \ fs, python \in Pythons, r \in VenvRuns :
        LET venv_dir == path_join(venv_root, "venv")
            cmd == create_venv_cmd(PY2, venv_dir, python)
            res == run([cmd |-> cmd, raise_on_err |-> TRUE,
                        capture |-> FALSE], r.p)
        IN  /\ fs' = fs \cup {venv_root}
                        \cup (IF r.made THEN {venv_dir} ELSE {})
            /\ fixtures' = Append(fixtures,
                  [venv_root |-> venv_root, venv_dir |-> venv_dir,
                   cmd |-> cmd,
                   phase |-> IF res.kind = "raise" THEN "setup_error"
                                                   ELSE "active",
                   passed |-> 0, failed |-> 0])
    /\ UNCHANGED PY2
    /\ UNCHANGED <<cmdVars, runVars, osVars, scopeVars, thrVars>>

\* A test of the fixture's scope passes or fails; neither reaches into the
\* fixture's generator.
TestPasses ==
    /\ \E i \in 1..Len(fixtures) :
        /\ fixtures[i].phase = "active"
        /\ fixtures[i].passed + fixtures[i].failed < MaxTests
        /\ fixtures' = [fixtures EXCEPT ![i].passed = @ + 1]
    /\ UNCHANGED <<PY2, fs>>
    /\ UNCHANGED <<cmdVars, runVars, osVars, scopeVars, thrVars>>

TestFails ==
    /\ \E i \in 1..Len(fixtures) :
        /\ fixtures[i].phase = "active"
        /\ fixtures[i].passed + fixtures[i].failed < MaxTests
        /\ fixtures' = [fixtures EXCEPT ![i].failed = @ + 1]
    /\ UNCHANGED <<PY2, fs>>
    /\ UNCHANGED <<cmdVars, runVars, osVars, scopeVars, thrVars>>

\* venv_fixture after its yield (line 79), at the end of the scope
FixtureTeardown ==
    /\ \E i \in 1..Len(fixtures) :
        /\ fixtures[i].phase = "active"
        /\ IF fixtures[i].venv_dir \in fs
           THEN /\ fs' = rmtree(fs, fixtures[i].venv_dir)
                /\ fixtures' = [fixtures EXCEPT ![i].phase = "done"]
           ELSE /\ fs' = fs
                /\ fixtures' = [fixtures EXCEPT ![i].phase = "teardown_error"]
    /\ UNCHANGED PY2
    /\ UNCHANGED <<cmdVars, runVars, osVars, scopeVars, thrVars>>

\* =========================================================================
\* add_to_path and activate_venv in two threads of one process.  A step is
\* one statement of the function; environ.copy(), clear() and update() are
\* taken as one step each.  The blocks themselves leave the environment
\* alone and end normally.

Threads == {1, 2}

Other(t) == IF t = 1 THEN 2 ELSE 1

ConcEnvs ==
    {[k \in S |-> IF k = "PATH" THEN "/usr/bin:/bin" ELSE "/old"] :
        S \in {{"PATH"}, {"PATH", "VIRTUAL_ENV"}}}

ThrIdle ==
    /\ thr = [t \in Threads |->
                [kind |-> "add_to_path", target |-> "", pc |-> "idle",
                 start |-> "", start_env |-> EmptyEnv]]
    /\ env0 = EmptyEnv
    /\ overlap = [rel |-> "none", inner |-> 0]

ThrInit ==
    /\ environ \in ConcEnvs
    /\ cwd = "/"
    /\ thr \in [Threads ->
                 [kind : {"add_to_path", "activate_venv"},
                  target : VenvDirs, pc : {"idle"}, start : {""},
                  start_env : {EmptyEnv}]]
    /\ env0 = environ
    /\ overlap = [rel |-> "none", inner |-> 0]

Ended(t) == thr[t].pc \in {"done", "raised"}

\* thread t runs the first statement of its scope
OnBegin(t) ==
    IF thr[Other(t)].pc = "idle" \/ Ended(Other(t))
    THEN overlap
    ELSE IF thr[Other(t)].pc = "body" /\ overlap.rel = "none"
    THEN [rel |-> "nested", inner |-> t]
    ELSE [rel |-> "improper", inner |-> 0]

\* thread t's block ends and the first statement after its yield runs
OnExitBegin(t) ==
    IF thr[Other(t)].pc = "idle" \/ Ended(Other(t))
    THEN overlap
    ELSE IF overlap.rel = "nested" /\ overlap.inner = t
            /\ thr[Other(t)].pc = "body"
    THEN overlap
    ELSE [rel |-> "improper", inner |-> 0]

\* start_env = environ.copy()
ThrCopy(t) ==
    /\ thr[t].kind = "activate_venv"
    /\ thr[t].pc = "idle"
    /\ thr' = [thr EXCEPT ![t].start_env = environ, ![t].pc = "copied"]
    /\ overlap' = OnBegin(t)
    /\ UNCHANGED <<environ, cwd, env0>>
    /\ UNCHANGED <<cmdVars, runVars, scopeVars, fixVars>>

\* environ['VIRTUAL_ENV'] = str(venv_dir)
ThrSetVenv(t) ==
    /\ thr[t].pc = "copied"
    /\ environ' = activate_venv_set_venv(environ, thr[t].target)
    /\ thr' = [thr EXCEPT ![t].pc = "venv_set"]
    /\ UNCHANGED <<cwd, env0, overlap>>
    /\ UNCHANGED <<cmdVars, runVars, scopeVars, fixVars>>

\* environ['__PYVENV_LAUNCHER__'] = '{}/bin/python'.format(venv_dir)
ThrSetLauncher(t) ==
    /\ thr[t].pc = "venv_set"
    /\ environ' = activate_venv_set_launcher(environ, thr[t].target)
    /\ thr' = [thr EXCEPT ![t].pc = "marked"]
    /\ UNCHANGED <<cwd, env0, overlap>>
    /\ UNCHANGED <<cmdVars, runVars, scopeVars, fixVars>>

\* start = environ['PATH'], the first statement of add_to_path
ThrReadPath(t) ==
    /\ \/ thr[t].kind = "add_to_path" /\ thr[t].pc = "idle"
       \/ thr[t].kind = "activate_venv" /\ thr[t].pc = "marked"
    /\ thr' = IF "PATH" \in DOMAIN environ
              THEN [thr EXCEPT ![t].start = add_to_path_read(environ),
                               ![t].pc = "read"]
              ELSE [thr EXCEPT ![t].pc = "raised"]
    /\ overlap' = IF thr[t].pc = "idle" THEN OnBegin(t) ELSE overlap
    /\ UNCHANGED <<environ, cwd, env0>>
    /\ UNCHANGED <<cmdVars, runVars, scopeVars, fixVars>>

\* environ['PATH'] = '{}:{}'.format(target, start), then the yield
ThrWritePath(t) ==
    /\ thr[t].pc = "read"
    /\ environ' = add_to_path_write(
                     environ,
                     IF thr[t].kind = "activate_venv"
                     THEN path_join(thr[t].target, "bin")
                     ELSE thr[t].target,
                     thr[t].start)
    /\ thr' = [thr EXCEPT ![t].pc = "body"]
    /\ UNCHANGED <<cwd, env0, overlap>>
    /\ UNCHANGED <<cmdVars, runVars, scopeVars, fixVars>>

\* environ['PATH'] = start
ThrRestorePath(t) ==
    /\ thr[t].pc = "body"
    /\ environ' = add_to_path_restore(environ, thr[t].start)
    /\ thr' = [thr EXCEPT ![t].pc = IF thr[t].kind = "add_to_path"
                                    THEN "done" ELSE "path_restored"]
    /\ overlap' = OnExitBegin(t)
    /\ UNCHANGED <<cwd, env0>>
    /\ UNCHANGED <<cmdVars, runVars, scopeVars, fixVars>>

\* environ.clear()
ThrClear(t) ==
    /\ thr[t].pc = "path_restored"
    /\ environ' = environ_clear(environ)
    /\ thr' = [thr EXCEPT ![t].pc = "cleared"]
    /\ UNCHANGED <<cwd, env0, overlap>>
    /\ UNCHANGED <<cmdVars, runVars, scopeVars, fixVars>>

\* environ.update(start_env)
ThrUpdate(t) ==
    /\ thr[t].pc = "cleared"
    /\ environ' = activate_venv_restore(environ, thr[t].start_env)
    /\ thr' = [thr EXCEPT ![t].pc = "done"]
    /\ UNCHANGED <<cwd, env0, overlap>>
    /\ UNCHANGED <<cmdVars, runVars, scopeVars, fixVars>>

\* =========================================================================
\* Specifications

InitCmd == CmdInit /\ RunIdle /\ OsIdle /\ ScopeIdle /\ FixIdle /\ ThrIdle

NextCmd == PipCmd \/ TwineCmd

SpecCmd == InitCmd /\ [][NextCmd]_vars

InitRun == CmdIdle /\ RunInit /\ OsIdle /\ ScopeIdle /\ FixIdle /\ ThrIdle

NextRun == Run

SpecRun == InitRun /\ [][NextRun]_vars

InitEnv == CmdIdle /\ RunIdle /\ ScopeInit /\ FixIdle /\ ThrIdle

NextEnv ==
    \/ EnterAddToPath
    \/ EnterActivateVenv
    \/ EnterChangedir
    \/ BodySetenv
    \/ BodyDelenv
    \/ BodyChdir
    \/ ExitNormal
    \/ ExitError

SpecEnv == InitEnv /\ [][NextEnv]_vars

InitFix == CmdIdle /\ RunIdle /\ OsIdle /\ ScopeIdle /\ FixInit /\ ThrIdle

NextFix == FixtureSetup \/ TestPasses \/ TestFails \/ FixtureTeardown

SpecFix == InitFix /\ [][NextFix]_vars

InitConc == CmdIdle /\ RunIdle /\ ScopeIdle /\ FixIdle /\ ThrInit

NextConc ==
    \E t \in Threads :
        \/ ThrCopy(t)
        \/ ThrSetVenv(t)
        \/ ThrSetLauncher(t)
        \/ ThrReadPath(t)
        \/ ThrWritePath(t)
        \/ ThrRestorePath(t)
        \/ ThrClear(t)
        \/ ThrUpdate(t)

SpecConc == InitConc /\ [][NextConc]_vars

\* =========================================================================
\* Properties

HasFetchOp == AnyIn(FetchOps, args)

HasIndexFlag == AnyIn(IndexFlags, args)

\* C3 (SpecCmd): with an index operation and no index flag among the args,
\* pip_cmd yields 'pip', the args in order, '-i', and then the default_index
\* the caller passed.
C3_DefaultIndexAppended ==
    (builder = "pip" /\ HasFetchOp /\ ~ HasIndexFlag)
        => cmd_out = <<"pip">> \o args \o <<"-i", default_index>>

\* C4 (SpecCmd): with an index flag anywhere among the args, or with no
\* index operation among them, pip_cmd yields exactly 'pip' and the args in
\* order, and nothing after them.
C4_NoIndexAppended ==
    (builder = "pip" /\ (HasIndexFlag \/ ~ HasFetchOp))
        => /\ Len(cmd_out) = Len(args) + 1
           /\ cmd_out[1] = "pip"
           /\ \A i \in 1..Len(args) : cmd_out[i + 1] = args[i]

\* An install whose index flag comes before the operation
C4_Witness ==
    /\ builder = "pip"
    /\ args = <<"--index-url", "foo", "install">>
    /\ cmd_out = <<"pip", "--index-url", "foo", "install">>

\* C7 (SpecCmd): twine_cmd yields 'twine', the args in order,
\* '--repository-url', repo_url, then '-u' 'username' exactly when '-u' is
\* not among the args, then '-p' 'password' exactly when '-p' is not among
\* them; each pair is decided on its own.
C7_TwineCredentials ==
    builder = "twine" =>
        LET n == Len(args)
            hasU == \E i \in 1..n : args[i] = "-u"
            hasP == \E i \in 1..n : args[i] = "-p"
        IN  /\ Len(cmd_out) >= n + 3
            /\ cmd_out[1] = "twine"
            /\ SubSeq(cmd_out, 2, n + 1) = args
            /\ cmd_out[n + 2] = "--repository-url"
            /\ cmd_out[n + 3] = default_index
            /\ SubSeq(cmd_out, n + 4, Len(cmd_out)) =
                CASE ~ hasU /\ ~ hasP ->
                        <<"-u", "username", "-p", "password">>
                  [] ~ hasU /\ hasP -> <<"-u", "username">>
                  [] hasU /\ ~ hasP -> <<"-p", "password">>
                  [] OTHER -> <<>>

\* '-u' supplied, '-p' not: only the password pair is appended
C7_Witness ==
    /\ builder = "twine"
    /\ args = <<"-u", "foo">>
    /\ default_index = "http://other"
    /\ cmd_out = <<"twine", "-u", "foo", "--repository-url", "http://other",
                   "-p", "password">>

Exited == outcome.kind # "pending" /\ proc.spawned

Returned == outcome.kind \in {"return_int", "return_str"}

RaisedProcessError ==
    /\ outcome.kind = "raise"
    /\ outcome.exc = "CalledProcessError"
    /\ outcome.returncode = proc.returncode
    /\ outcome.cmd = run_in.cmd

CapturedDecodes ==
    run_in.capture => (Utf8Valid(proc.stdout) /\ Utf8Valid(proc.stderr))

C8_ReturnValue ==
    Returned =>
        IF run_in.capture
        THEN /\ outcome.kind = "return_str"
             /\ outcome.val = Utf8Decode(proc.stdout)
        ELSE /\ outcome.kind = "return_int"
             /\ outcome.val = proc.returncode

\* A failing command that wrote the two bytes of U+00E9 to its stdout and
\* something else to its stderr
C8_Witness ==
    /\ Returned
    /\ run_in.capture
    /\ ~ run_in.raise_on_err
    /\ proc.returncode = 1
    /\ proc.stdout = <<195, 169>>
    /\ proc.stderr = <<65>>
    /\ outcome.val = <<233>>

\* C1 (SpecEnv): once an add_to_path block has exited, normally or by an
\* error raised inside it, PATH is exactly what it was before the block was
\* entered.
C1_PathRestoredOnEveryExit ==
    last_exit.kind = "add_to_path" =>
        /\ "PATH" \in DOMAIN environ
        /\ environ["PATH"] = last_exit.pre_env["PATH"]

\* C1, the normal exit alone (SpecEnv): PATH is what it was before the
\* block.
C1_PathRestoredOnNormalExit ==
    (last_exit.kind = "add_to_path" /\ last_exit.how = "normal") =>
        /\ "PATH" \in DOMAIN environ
        /\ environ["PATH"] = last_exit.pre_env["PATH"]

\* C2 (SpecEnv): once an activate_venv block has exited, on every exit
\* path, the whole environment equals the snapshot taken at entry.
C2_EnvRestoredOnEveryExit ==
    last_exit.kind = "activate_venv" => environ = last_exit.pre_env

\* C2, the normal exit alone (SpecEnv): the whole environment equals the
\* snapshot.
C2_EnvRestoredOnNormalExit ==
    (last_exit.kind = "activate_venv" /\ last_exit.how = "normal")
        => environ = last_exit.pre_env

\* C9 (SpecEnv): once a changedir block has exited, on every exit path, the
\* working directory is again the one that was current at entry.
C9_CwdRestoredOnEveryExit ==
    last_exit.kind = "changedir" => cwd = last_exit.pre_cwd

\* C9, the normal exit alone (SpecEnv): the working directory is the one of
\* entry.
C9_CwdRestoredOnNormalExit ==
    (last_exit.kind = "changedir" /\ last_exit.how = "normal")
        => cwd = last_exit.pre_cwd

\* C6 (SpecFix): after the fixture's scope has exited, the mkdtemp root the
\* fixture created no longer exists, whether the tests passed or failed.
C6_TmpRootRemoved ==
    \A i \in 1..Len(fixtures) :
        fixtures[i].phase = "done" => fixtures[i].venv_root \notin fs

\* C6, what teardown does remove (SpecFix): the venv directory.
C6_VenvDirRemoved ==
    \A i \in 1..Len(fixtures) :
        fixtures[i].phase = "done" => fixtures[i].venv_dir \notin fs

AllDone == \A t \in Threads : thr[t].pc = "done"

\* C10 (SpecConc): when the scopes of the two threads ran one after the
\* other or one properly inside the other's block, and both exited
\* normally, the environment is the one from before either scope.  (That
\* scopes overlapping otherwise can lose it is C10_ImproperOverlapLosesPath,
\* a state the specification reaches.)
C10_ProperScopesRestore ==
    (AllDone /\ overlap.rel \in {"none", "nested"}) => environ = env0

\* Two add_to_path scopes that overlapped without nesting have both exited
\* normally, and PATH is not the one from before.
C10_ImproperOverlapLosesPath ==
    /\ AllDone
    /\ \A t \in Threads : thr[t].kind = "add_to_path"
    /\ overlap.rel = "improper"
    /\ "PATH" \in DOMAIN environ
    /\ environ["PATH"] # env0["PATH"]

====
